---- MODULE Spec2Model ----
(***************************************************************************)
(* Model of the cf-icon worker: icon discovery, ranking and resolution.    *)
(*                                                                         *)
(* Three request handlers live in the repository:                          *)
(*   - the fetchIconList handler (src/unnamed/part_001 with the library    *)
(*     src/unnamed/part_000), specification Spec, SpecInput, SpecHrefs,    *)
(*     SpecDomains, and SpecLive, which adds fairness;                     *)
(*   - the findBestIcon handler (src/src/index.ts, lines 1-268),           *)
(*     specification SpecBest;                                             *)
(*   - the two scoring functions, applied to drawn inputs, SpecScore and   *)
(*     SpecFallbackScore.                                                  *)
(*                                                                         *)
(* Strings are modelled as sequences of tokens (a token is a run of        *)
(* characters that the code never splits), so that startsWith, endsWith,   *)
(* includes, toLowerCase and concatenation are computed, not assumed.      *)
(***************************************************************************)
EXTENDS Integers, Sequences, FiniteSets, TLC

VARIABLES
    pc,           \* position of the handler
    path,         \* request target: pathname.slice(1) or the url parameter
    domain,       \* hostname parsed from the target
    net,          \* the network: what each image URL answers
    allIcons,     \* fetchIconList: the list being built
    sortedIcons,  \* handler: scored and sorted list
    idx,          \* handler: position of the resolution loop (1-based)
    candidates,   \* findBestIcon: collected candidates
    manifestUrl,  \* findBestIcon: retained manifest URL, or Null
    iconUrl,      \* findBestIcon: returned URL
    fetches,      \* every network request issued so far, in order
    response,     \* the handler's outcome, or Null while running
    scored,       \* SpecScore: the descriptors drawn and their scores
    site,         \* the elements the target site's pages are made of
    img,          \* the response to the image request of the current candidate
    lastPage,     \* discovery: the response to the last page request
    lookups,      \* fetchIconList: the answers of the third-party lookups so far
    lastManifest  \* findBestIcon: the response to the manifest request

vars == << pc, path, domain, net, allIcons, sortedIcons, idx, candidates,
           manifestUrl, iconUrl, fetches, response, scored, site, img,
           lastPage, lookups, lastManifest >>

(***************************************************************************)
(* Bounds of the model.                                                    *)
(***************************************************************************)
MaxPathLen == 3
MaxLinks == 2
MaxWidth == 999999

(***************************************************************************)
(* String helpers over token sequences.                                    *)
(***************************************************************************)
\* tokens whose text starts with the prefix
TokensStartingWith(prefix) ==
    CASE prefix = "http" -> {"http://", "https://", "http", "httpd-logo"}
      [] prefix = "/" -> {"/", "//", "/apple-touch-icon", "/ip3/"}
      [] prefix = "image/" -> {"image/"}
      [] prefix = "image" -> {"image/", "image/svg+xml", "image/png"}
      [] OTHER -> {prefix}

StartsWith(s, prefix) == Len(s) > 0 /\ s[1] \in TokensStartingWith(prefix)

\* startsWith of a text that spans the first two tokens
StartsWith2(s, first, second) ==
    Len(s) > 1 /\ s[1] = first /\ s[2] \in TokensStartingWith(second)

EndsWith(s, t) == Len(s) > 0 /\ s[Len(s)] = t

\* tokens whose text contains the needle
TokensContaining(needle) ==
    CASE needle = "icon" ->
           {"icon", "apple-touch-icon", "manifest-icon", "mask-icon",
            "icons.duckduckgo.com", "/apple-touch-icon", "x-icon",
            "vnd.microsoft.icon", "google.com/s2/favicons", "favicon"}
      [] needle = "ico" ->
           {"ico", "icon", "x-icon", "vnd.microsoft.icon", ".ico"}
      [] needle = "svg" -> {"svg", "svg+xml", ".svg", "<svg"}
      [] needle = "width=" -> {"width=", "stroke-width="}
      [] needle = "height=" -> {"height=", "line-height="}
      [] needle = "apple-touch-icon" -> {"apple-touch-icon", "/apple-touch-icon"}
      [] needle = "google.com/s2/favicons" -> {"google.com/s2/favicons"}
      [] needle = "icons.duckduckgo.com" -> {"icons.duckduckgo.com"}
      [] OTHER -> {needle}

Includes(s, needle) == \E k \in 1..Len(s) : s[k] \in TokensContaining(needle)

LowerToken(t) ==
    CASE t = "D" -> "d"
      [] t = "J" -> "j"
      [] t = ".PNG" -> ".png"
      [] t = ".SVG" -> ".svg"
      [] OTHER -> t

ToLowerCase(s) == [k \in 1..Len(s) |-> LowerToken(s[k])]

(***************************************************************************)
(* Declared sizes.  A sizes attribute is kept by its syntactic form:       *)
(*   "null"    attribute absent (or empty: both are falsy)                 *)
(*   "any"     the literal any                                             *)
(*   "WxH"     digits, x, digits (w is the first number)                   *)
(*   "W"       digits only, no x                                           *)
(*   "junk"    text that starts with no digit and holds no WxH pair        *)
(*   "unknown" the sentinel getFavicons writes for an absent attribute     *)
(***************************************************************************)
Size(form, w) == [form |-> form, w |-> w]

NoSize == Size("null", 0)

Widths == {16, 32, 180, MaxWidth}

DeclaredSizes ==
    {NoSize, Size("any", 0), Size("junk", 0)} \cup {Size("WxH", w) : w \in Widths}

\* sizes.match(/(\d+)x(\d+)/) then parseInt(sizeMatch[1], 10); 0 for no match
SizeMatchWidth(sizes) == IF sizes.form = "WxH" THEN sizes.w ELSE 0

\* parseInt(sizes.split('x')[0], 10); -1 stands for NaN
ParseIntFirst(sizes) == IF sizes.form \in {"WxH", "W"} THEN sizes.w ELSE -1

(***************************************************************************)
(* scoreCandidate, src/src/index.ts lines 44-80.                           *)
(***************************************************************************)
SvgMime == << "image/", "svg+xml" >>

\* faulty variant of ScoreTypeTerm: the vector bonus no longer dominates the role bonus
ScoreTypeTermWeak(href, type) ==
    IF EndsWith(href, ".svg") \/ type = << "image/", "svg+xml" >> THEN 500 ELSE 0

ScoreTypeTerm(href, type) ==
    IF EndsWith(href, ".svg") \/ type = SvgMime THEN 1000 ELSE 0

ScoreRelTerm(rel) ==
    IF Includes(rel, "apple-touch-icon") THEN 650
    ELSE IF rel = << "manifest-icon" >> THEN 650
    ELSE IF Includes(rel, "icon") THEN 100
    ELSE 0

ScoreSizesTerm(sizes) ==
    IF sizes.form = "null" THEN 0
    ELSE IF sizes.form = "any" THEN 500
    ELSE SizeMatchWidth(sizes)

\* faulty variant of scoreCandidate: the og:image override is lost
scoreCandidateNoOverride(c) ==
    ScoreTypeTerm(c.href, c.type) + ScoreRelTerm(c.rel) + ScoreSizesTerm(c.sizes)

scoreCandidate(c) ==
    IF c.rel = << "og:image" >> THEN 50
    ELSE ScoreTypeTerm(c.href, c.type) + ScoreRelTerm(c.rel) + ScoreSizesTerm(c.sizes)

(***************************************************************************)
(* calculateScore, src/unnamed/part_001 lines 36-61.                       *)
(***************************************************************************)
\* faulty variant of FormatTerm: the extension is looked at before the scheme
FormatTermExtensionFirst(href) ==
    IF EndsWith(href, ".svg") THEN 1000
    ELSE IF EndsWith(href, ".png") THEN 500
    ELSE IF EndsWith(href, ".ico") THEN 200
    ELSE IF StartsWith(href, "data:") THEN 0 - 1000
    ELSE 100

FormatTerm(href) ==
    IF StartsWith(href, "data:") THEN 0 - 1000
    ELSE IF EndsWith(href, ".svg") THEN 1000
    ELSE IF EndsWith(href, ".png") THEN 500
    ELSE IF EndsWith(href, ".ico") THEN 200
    ELSE 100

SizeBonus(sizes) ==
    IF sizes.form \in {"null", "unknown"} THEN 0
    ELSE IF ParseIntFirst(sizes) = -1 THEN 0
    ELSE ParseIntFirst(sizes)

ReputationTerm(href) ==
    (IF Includes(href, "apple-touch-icon") THEN 50 ELSE 0)
    + (IF Includes(href, "google.com/s2/favicons") THEN 30 ELSE 0)
    + (IF Includes(href, "icons.duckduckgo.com") THEN 0 - 20 ELSE 0)

calculateScore(icon) ==
    LET href == ToLowerCase(icon.href)
    IN  FormatTerm(href) + SizeBonus(icon.sizes) + ReputationTerm(href)

(***************************************************************************)
(* candidates.sort((a, b) => b.score - a.score): a stable sort, descending *)
(* by score.  Computed by stable insertion.                                *)
(***************************************************************************)
InsertByScore(sorted, x) ==
    LET before == {k \in 1..Len(sorted) : sorted[k].score >= x.score}
        n == Cardinality(before)
    IN  SubSeq(sorted, 1, n) \o << x >> \o SubSeq(sorted, n + 1, Len(sorted))

RECURSIVE SortByScoreDesc(_)
SortByScoreDesc(s) ==
    IF Len(s) = 0 THEN << >>
    ELSE InsertByScore(SortByScoreDesc(SubSeq(s, 1, Len(s) - 1)), s[Len(s)])


(***************************************************************************)
(* The request target.  requestUrl.pathname.slice(1) is a text over        *)
(* PathTokens: "%" starts a percent escape, "4" and "a" are hex digits and *)
(* host characters, "^" is a character no host may hold, "http://" is a    *)
(* scheme prefix.                                                          *)
(***************************************************************************)
PathTokens == {"%", "4", "a", "^", "http://"}

Paths == UNION {[1..n -> PathTokens] : n \in 0..MaxPathLen}

HexDigits == {"4", "a"}

\* the character a percent escape %xy denotes, "" when the byte is no
\* complete UTF-8 sequence (0xA4, 0xAA are continuation bytes)
EscapeChar(x, y) ==
    CASE x = "4" /\ y = "4" -> "D"
      [] x = "4" /\ y = "a" -> "J"
      [] OTHER -> ""

\* decodeURIComponent: [ok |-> FALSE] stands for the URIError it throws
RECURSIVE decodeURIComponent(_)
decodeURIComponent(s) ==
    IF Len(s) = 0 THEN [ok |-> TRUE, text |-> << >>]
    ELSE IF s[1] = "%"
    THEN IF Len(s) >= 3 /\ s[2] \in HexDigits /\ s[3] \in HexDigits
              /\ EscapeChar(s[2], s[3]) # ""
         THEN LET rest == decodeURIComponent(SubSeq(s, 4, Len(s)))
              IN  IF rest.ok
                  THEN [ok |-> TRUE, text |-> << EscapeChar(s[2], s[3]) >> \o rest.text]
                  ELSE [ok |-> FALSE, text |-> << >>]
         ELSE [ok |-> FALSE, text |-> << >>]
    ELSE LET rest == decodeURIComponent(Tail(s))
         IN  IF rest.ok
             THEN [ok |-> TRUE, text |-> << s[1] >> \o rest.text]
             ELSE [ok |-> FALSE, text |-> << >>]

\* the authority of scheme://rest: the text before the first "/"; a later
\* "http://" token contributes "http" (and an empty port) to it
RECURSIVE HostText(_)
HostText(rest) ==
    IF Len(rest) = 0 THEN << >>
    ELSE IF rest[1] = "http://" THEN << "http" >>
    ELSE << rest[1] >> \o HostText(Tail(rest))

RECURSIVE DecimalValue(_)
DecimalValue(digits) ==
    IF Len(digits) = 0 THEN 0
    ELSE 10 * DecimalValue(SubSeq(digits, 1, Len(digits) - 1)) + 4

\* the serialisation of an IPv4 host given as one decimal number
Ipv4Host(n) ==
    << ToString(n \div 16777216), ".", ToString((n \div 65536) % 256), ".",
       ToString((n \div 256) % 256), ".", ToString(n % 256) >>

\* new URL(text).hostname for a text starting with a scheme;
\* [ok |-> FALSE] stands for the TypeError it throws
ParseHostname(text) ==
    LET host == HostText(Tail(text))
    IN  IF Len(host) = 0 \/ \E k \in 1..Len(host) : host[k] = "^"
        THEN [ok |-> FALSE, hostname |-> << >>]
        ELSE IF \A k \in 1..Len(host) : host[k] = "4"
        THEN [ok |-> TRUE, hostname |-> Ipv4Host(DecimalValue(host))]
        ELSE [ok |-> TRUE, hostname |-> ToLowerCase(host)]

\* lines 75-77: the default scheme
WithScheme(text) ==
    IF ~StartsWith(text, "http://") /\ ~StartsWith(text, "https://")
    THEN << "https://" >> \o text
    ELSE text

(***************************************************************************)
(* Defaults of the variables a specification does not use.                 *)
(***************************************************************************)
NoResponse == [status |-> 0, ctype |-> << >>, body |-> << >>, thrown |-> FALSE]

NoImage == [fetched |-> FALSE]

NoScored == [applied |-> FALSE]

NoPage == [fetched |-> FALSE]

NoManifest == [fetched |-> FALSE]

\* a page response, once received
Received(pg) ==
    [fetched |-> TRUE, throws |-> pg.throws, ok |-> pg.ok, html |-> pg.html,
     doc |-> pg.doc]

(***************************************************************************)
(* IconCollector's test of a link element's rel, src/src/index.ts line 98. *)
(***************************************************************************)
IsIconRel(rel) ==
    Len(rel) > 0 /\ (Includes(rel, "icon") \/ Includes(rel, "apple-touch-icon"))

(***************************************************************************)
(* SpecScore: scoreCandidate applied to two drawn descriptors.             *)
(***************************************************************************)
PngMime == << "image/", "png" >>

ScoreHrefs == { << "/", "a", ".png" >>, << "/", "c", ".svg" >>, << "/", "favicon", ".ico" >> }

ScoreRels ==
    { << >>, << "stylesheet" >>, << "icon" >>, << "apple-touch-icon" >>,
      << "manifest-icon" >>, << "og:image" >> }

ScoreTypes == { << >>, SvgMime, PngMime }

Descriptors ==
    [href : ScoreHrefs, rel : ScoreRels, sizes : DeclaredSizes, type : ScoreTypes]

InitScore ==
    /\ pc = "draw"
    /\ scored = NoScored
    /\ path = << >>
    /\ domain = << >>
    /\ net = {}
    /\ allIcons = << >>
    /\ sortedIcons = << >>
    /\ idx = 0
    /\ candidates = << >>
    /\ manifestUrl = << >>
    /\ iconUrl = << >>
    /\ fetches = << >>
    /\ response = NoResponse
    /\ site = {}
    /\ img = NoImage
    /\ lastPage = NoPage
    /\ lookups = << >>
    /\ lastManifest = NoManifest

ScorePair ==
    /\ pc = "draw"
    /\ \E a \in Descriptors, b \in Descriptors :
          scored' = [applied |-> TRUE, a |-> a, b |-> b,
                     sa |-> scoreCandidate(a), sb |-> scoreCandidate(b)]
    /\ pc' = "scored"
    /\ UNCHANGED << path, domain, net, allIcons, sortedIcons, idx, candidates,
                    manifestUrl, iconUrl, fetches, response, site, img, lastPage,
                    lookups, lastManifest >>

NextScore == ScorePair

SpecScore == InitScore /\ [][NextScore]_vars

(***************************************************************************)
(* Claims about scoreCandidate.                                            *)
(***************************************************************************)
IsVector(c) == EndsWith(c.href, ".svg") \/ c.type = SvgMime

IsSocialPreview(c) == c.rel = << "og:image" >>

\* the width a declared size states: the W of WxH, 0 when absent or unparseable
DeclaredWidth(sizes) == IF sizes.form = "WxH" THEN sizes.w ELSE 0

\* b's declared size is equal to or lower than a's: both numeric (or absent)
\* with b's width at most a's, or both the sentinel any
SizeEqualOrLower(b, a) ==
    \/ /\ a.sizes.form # "any"
       /\ b.sizes.form # "any"
       /\ DeclaredWidth(b.sizes) <= DeclaredWidth(a.sizes)
       /\ DeclaredWidth(a.sizes) <= 999999
    \/ a.sizes.form = "any" /\ b.sizes.form = "any"

\* C7 as stated: every vector-format candidate scores strictly higher than
\* every non-vector candidate whose declared size is equal or lower, for all
\* roles (the og:image role included).
C7_VectorAboveAllRoles ==
    scored.applied =>
        ((IsVector(scored.a) /\ ~IsVector(scored.b)
          /\ SizeEqualOrLower(scored.b, scored.a))
            => scored.sa > scored.sb)

\* C7 amended: every vector-format candidate whose role is not og:image scores
\* strictly higher than every non-vector candidate whose declared size is
\* equal or lower (widths up to 999999, absent counted as 0, or both any).
C7_VectorAboveExceptSocial ==
    scored.applied =>
        ((IsVector(scored.a) /\ ~IsSocialPreview(scored.a) /\ ~IsVector(scored.b)
          /\ SizeEqualOrLower(scored.b, scored.a))
            => scored.sa > scored.sb)

\* witness of C7: a vector candidate with the weakest role and a raster
\* apple-touch-icon of the same, largest, declared width have been scored
C7_Witness ==
    /\ scored.applied
    /\ IsVector(scored.a) /\ scored.a.rel = << >>
    /\ ~IsVector(scored.b) /\ scored.b.rel = << "apple-touch-icon" >>
    /\ scored.a.sizes = Size("WxH", MaxWidth)
    /\ scored.b.sizes = Size("WxH", MaxWidth)
    /\ scored.sa > scored.sb

\* C8: scoreCandidate returns exactly 50 for every og:image candidate whatever
\* its href, sizes and type, and every candidate collected from a link element
\* (IsIconRel) or from the manifest (rel manifest-icon) scores more than 50,
\* so a social-preview candidate never scores above a genuine icon candidate.
C8_SocialPreviewFixedAndLowest ==
    scored.applied =>
        /\ IsSocialPreview(scored.a) => scored.sa = 50
        /\ (IsIconRel(scored.b.rel) \/ scored.b.rel = << "manifest-icon" >>)
              => scored.sb > 50
        /\ (IsSocialPreview(scored.a)
            /\ (IsIconRel(scored.b.rel) \/ scored.b.rel = << "manifest-icon" >>))
              => scored.sa < scored.sb

\* witness of C8: an og:image candidate that is a vector with size any (every
\* additive term applies) scored against a generic icon with no size
C8_Witness ==
    /\ scored.applied
    /\ IsSocialPreview(scored.a) /\ IsVector(scored.a)
    /\ scored.a.sizes.form = "any" /\ scored.a.type = SvgMime
    /\ scored.b.rel = << "icon" >> /\ scored.b.sizes = NoSize /\ ~IsVector(scored.b)
    /\ scored.sa = 50 /\ scored.sb = 100


(***************************************************************************)
(* Page markup.  A document is a sequence of elements; an element keeps    *)
(* its tag and the attributes the scanners read (for a meta element rel    *)
(* holds the property attribute and href the content attribute).           *)
(***************************************************************************)
Element(tag, rel, href, sizes, type) ==
    [tag |-> tag, rel |-> rel, href |-> href, sizes |-> sizes, type |-> type]

IconA == Element("link", << "icon" >>, << "/", "a", ".png" >>, Size("WxH", 32), << >>)

TouchB ==
    Element("link", << "apple-touch-icon" >>, << "/", "b", ".png" >>,
            Size("WxH", 180), << >>)

TouchIco ==
    Element("link", << "apple-touch-icon" >>, << "/", "touch", ".ico" >>,
            Size("WxH", 180), << >>)

IconJpg == Element("link", << "icon" >>, << "icon", ".jpg" >>, NoSize, << >>)

LinkPool == {IconA, TouchIco, IconJpg}

\* hrefs of every form: absolute, protocol-relative, root-relative,
\* path-relative, and path-relative with a text that begins with "http"
AbsIcon ==
    Element("link", << "icon" >>, << "https://", "cdn", "/", "x", ".png" >>, NoSize, << >>)

ProtoRelIcon ==
    Element("link", << "icon" >>, << "//", "cdn", "/", "x", ".png" >>, NoSize, << >>)

HttpdLogo == Element("link", << "icon" >>, << "httpd-logo", ".png" >>, NoSize, << >>)

HrefPool == {IconA, IconJpg, AbsIcon, ProtoRelIcon, HttpdLogo}

\* the documents of at most MaxLinks distinct elements of a pool
DocsOf(pool) ==
    {d \in UNION {[1..n -> pool] : n \in 0..MaxLinks} :
        \A j, k \in 1..Len(d) : j # k => d[j] # d[k]}

\* what a page request may answer
PageResponses ==
    {[throws |-> TRUE, ok |-> FALSE, html |-> FALSE, doc |-> << >>]}
    \cup [throws : {FALSE}, ok : BOOLEAN, html : BOOLEAN, doc : DocsOf(site)]

(***************************************************************************)
(* getFavicons, src/unnamed/part_000 lines 5-60.                           *)
(***************************************************************************)
\* the regex /<link[^>]*rel=['"]?[^\s]*icon['"]?[^>]*?>/ : the run of
\* non-blank characters that follows rel= must hold "icon"
RECURSIVE FirstWord(_)
FirstWord(text) ==
    IF Len(text) = 0 \/ text[1] = " " THEN << >>
    ELSE << text[1] >> \o FirstWord(Tail(text))

LinkTagMatches(el) == el.tag = "link" /\ Includes(FirstWord(el.rel), "icon")

\* line 38: the href kept for a link tag
ResolveHref(href, origin) ==
    IF StartsWith(href, "http") \/ StartsWith2(href, "data:", "image")
    THEN href
    ELSE origin \o (IF StartsWith(href, "/") THEN href ELSE << "/" >> \o href)

\* line 37: sizes || 'unknown'
SizesOrUnknown(sizes) == IF sizes.form = "null" THEN Size("unknown", 0) ELSE sizes

RECURSIVE ScanLinkTags(_, _)
ScanLinkTags(doc, origin) ==
    IF Len(doc) = 0 THEN << >>
    ELSE LET el == doc[1]
             rest == ScanLinkTags(Tail(doc), origin)
         IN  IF LinkTagMatches(el) /\ Len(el.href) > 0
             THEN << [sizes |-> SizesOrUnknown(el.sizes),
                      href |-> ResolveHref(el.href, origin)] >> \o rest
             ELSE rest

\* the icons of the ResponseInfo; the body is scanned whatever the status
getFavicons(origin, page) ==
    IF page.throws THEN << >> ELSE ScanLinkTags(page.doc, origin)

(***************************************************************************)
(* fetchIconList, src/unnamed/part_000 lines 66-128.                       *)
(***************************************************************************)
\* encodeURIComponent: every token of a hostname is unreserved
EncodeToken(t) ==
    CASE t = "/" -> "%2F"
      [] t = ":" -> "%3A"
      [] OTHER -> t

encodeURIComponent(text) == [k \in 1..Len(text) |-> EncodeToken(text[k])]

DuckDuckGoSource(d) ==
    << "https://", "icons.duckduckgo.com", "/ip3/" >> \o encodeURIComponent(d)
        \o << ".ico" >>

GoogleSource(d) ==
    << "https://", "www.", "google.com/s2/favicons", "?domain=" >>
        \o encodeURIComponent(d) \o << "&sz=128" >>

\* lines 92-95
Sources(d) == << DuckDuckGoSource(d), GoogleSource(d) >>

\* what a third-party lookup may answer
ProbeResponses ==
    {[throws |-> TRUE, ok |-> FALSE, status |-> 0, ctype |-> << >>],
     [throws |-> FALSE, ok |-> FALSE, status |-> 404, ctype |-> << "text/html" >>],
     [throws |-> FALSE, ok |-> TRUE, status |-> 204, ctype |-> << "image/", "png" >>],
     [throws |-> FALSE, ok |-> TRUE, status |-> 200, ctype |-> << >>],
     [throws |-> FALSE, ok |-> TRUE, status |-> 200, ctype |-> << "text/html" >>],
     [throws |-> FALSE, ok |-> TRUE, status |-> 200, ctype |-> << "image/", "x-icon" >>]}

\* faulty variant of SourceAccepted: the content type is not looked at
SourceAcceptedAnyType(r) == ~r.throws /\ r.ok /\ r.status = 200

\* lines 100-104: the lookup URL is kept
SourceAccepted(r) ==
    ~r.throws /\ r.ok /\ r.status = 200 /\ Len(r.ctype) > 0
    /\ StartsWith(r.ctype, "image/")

\* the text of a token's first character, upper-cased
FirstLetterUpper(t) ==
    CASE t = "a" -> "A"
      [] t = "d" -> "D"
      [] t = "j" -> "J"
      [] t = "http" -> "H"
      [] t = "4" -> "4"
      [] OTHER -> "0"

\* lines 114-119
PlaceholderSvg(d) ==
    << "<svg", "width=", "height=", "xmlns=", ">", "<rect", "width=", "height=",
       "/>", "<text", ">", FirstLetterUpper(d[1]), "</text>", "</svg>" >>

\* base64 of one token (btoa), "" for a token outside Latin-1
Base64Token(t) ==
    CASE t = "<svg" -> "PHN2Zw"
      [] t = "width=" -> "d2lkdGg9"
      [] t = "height=" -> "aGVpZ2h0PQ"
      [] t = "xmlns=" -> "eG1sbnM9"
      [] t = ">" -> "Pg"
      [] t = "<rect" -> "PHJlY3Q"
      [] t = "/>" -> "Lz4"
      [] t = "<text" -> "PHRleHQ"
      [] t = "</text>" -> "PC90ZXh0Pg"
      [] t = "</svg>" -> "PC9zdmc+"
      [] t = "A" -> "QQ"
      [] t = "D" -> "RA"
      [] t = "J" -> "Sg"
      [] t = "H" -> "SA"
      [] t = "4" -> "NA"
      [] t = "0" -> "MA"
      [] OTHER -> ""

Base64Source == {"<svg", "width=", "height=", "xmlns=", ">", "<rect", "/>", "<text",
                 "</text>", "</svg>", "A", "D", "J", "H", "4", "0"}

btoa(text) == [k \in 1..Len(text) |-> Base64Token(text[k])]

\* lines 120-124
PlaceholderIcon(d) ==
    [sizes |-> Size("WxH", 100),
     href |-> << "data:", "image/svg+xml", ";base64", "," >> \o btoa(PlaceholderSvg(d))]


(***************************************************************************)
(* The resolution loop of the handler, src/unnamed/part_001 lines 99-166.  *)
(***************************************************************************)
\* what an image request may answer.  len is the Content-Length header
\* (declared FALSE: no header); decodes: the codec for the content type
\* accepts the body, resizes and encodes it; ico: the widths of the images
\* decodeIco returns; svg: the body read as text
ImageResponse(throws, ok, ctype, declared, len, decodes, ico, svg) ==
    [fetched |-> TRUE, throws |-> throws, ok |-> ok, ctype |-> ctype,
     declared |-> declared, len |-> len, decodes |-> decodes, ico |-> ico,
     svg |-> svg]

IcoMime == << "image/", "x-icon" >>

BareSvg == << "<svg", "xmlns=", ">", "<rect", "/>", "</svg>" >>

SizedSvg == << "<svg", "width=", "height=", ">", "<rect", "/>", "</svg>" >>

\* an svg whose root element has no dimensions while a child element has
ChildSizedSvg ==
    << "<svg", "xmlns=", ">", "<rect", "width=", "height=", "/>", "</svg>" >>

ImageResponses ==
    { ImageResponse(TRUE, FALSE, << >>, FALSE, 0, FALSE, << >>, << >>),
      ImageResponse(FALSE, FALSE, PngMime, TRUE, 5000, TRUE, << >>, << >>),
      ImageResponse(FALSE, TRUE, << "text/html" >>, TRUE, 5000, FALSE, << >>, << >>),
      ImageResponse(FALSE, TRUE, << >>, TRUE, 5000, TRUE, << >>, << >>),
      ImageResponse(FALSE, TRUE, PngMime, TRUE, 99, TRUE, << >>, << >>),
      ImageResponse(FALSE, TRUE, PngMime, TRUE, 100, TRUE, << >>, << >>),
      ImageResponse(FALSE, TRUE, PngMime, FALSE, 0, TRUE, << >>, << >>),
      ImageResponse(FALSE, TRUE, PngMime, TRUE, 5000, FALSE, << >>, << >>),
      ImageResponse(FALSE, TRUE, << "image/", "jpeg" >>, TRUE, 5000, TRUE, << >>, << >>),
      ImageResponse(FALSE, TRUE, << "image/", "gif" >>, TRUE, 5000, TRUE, << >>, << >>),
      ImageResponse(FALSE, TRUE, IcoMime, TRUE, 5000, TRUE, << 16, 32, 48 >>, << >>),
      ImageResponse(FALSE, TRUE, IcoMime, TRUE, 5000, TRUE, << >>, << >>),
      ImageResponse(FALSE, TRUE, SvgMime, TRUE, 5000, TRUE, << >>, BareSvg),
      ImageResponse(FALSE, TRUE, SvgMime, FALSE, 0, TRUE, << >>, SizedSvg),
      ImageResponse(FALSE, TRUE, IcoMime, TRUE, 5000, TRUE, << 48, 16, 32 >>, << >>),
      ImageResponse(FALSE, TRUE, SvgMime, TRUE, 0, FALSE, << >>, << >>),
      ImageResponse(FALSE, TRUE, SvgMime, TRUE, 5000, TRUE, << >>, ChildSizedSvg) }

\* text.replace(/<svg/i, with): the first "<svg" token is replaced
RECURSIVE ReplaceSvgTag(_, _)
ReplaceSvgTag(text, with) ==
    IF Len(text) = 0 THEN << >>
    ELSE IF text[1] = "<svg" THEN with \o Tail(text)
    ELSE << text[1] >> \o ReplaceSvgTag(Tail(text), with)

\* lines 129-134
InjectDimensions(text) ==
    LET w == IF ~Includes(text, "width=")
             THEN ReplaceSvgTag(text, << "<svg", "width=" >>)
             ELSE text
    IN  IF ~Includes(w, "height=")
        THEN ReplaceSvgTag(w, << "<svg", "height=" >>)
        ELSE w

\* atob of one token: the token btoa made it from, "" for no base64 text
AtobToken(t) ==
    IF \E u \in Base64Source : Base64Token(u) = t
    THEN CHOOSE u \in Base64Source : Base64Token(u) = t
    ELSE ""

\* atob: [ok |-> FALSE] stands for the exception it throws
atob(text) ==
    IF \E k \in 1..Len(text) : AtobToken(text[k]) = ""
    THEN [ok |-> FALSE, text |-> << >>]
    ELSE [ok |-> TRUE, text |-> [k \in 1..Len(text) |-> AtobToken(text[k])]]

\* href.split(',')[1]: the text between the first and the second comma;
\* "undefined" when there is no comma
RECURSIVE UpToComma(_)
UpToComma(text) ==
    IF Len(text) = 0 \/ text[1] = "," THEN << >>
    ELSE << text[1] >> \o UpToComma(Tail(text))

RECURSIVE AfterComma(_)
AfterComma(text) ==
    IF Len(text) = 0 THEN << "undefined" >>
    ELSE IF text[1] = "," THEN UpToComma(Tail(text))
    ELSE AfterComma(Tail(text))

Success(ctype, body) ==
    [status |-> 200, ctype |-> ctype, body |-> body, thrown |-> FALSE]

Failure(status) ==
    [status |-> status, ctype |-> << "text/plain" >>, body |-> << >>, thrown |-> FALSE]

Uncaught == [status |-> 0, ctype |-> << >>, body |-> << >>, thrown |-> TRUE]

Rejected == [accepted |-> FALSE, response |-> NoResponse]

Accepted(resp) == [accepted |-> TRUE, response |-> resp]

\* lines 101-113: a data-URI candidate
TryDataUri(href) ==
    LET decoded == atob(AfterComma(href))
    IN  IF decoded.ok
        THEN Accepted(Success(SvgMime,
                 ReplaceSvgTag(decoded.text, << "<svg", "width=", "height=" >>)))
        ELSE Rejected

\* faulty variant of WidestIco: the first embedded image is taken
WidestIcoFirst(widths) == widths[1]

\* the widest image of a decoded ICO: reduce((a, b) => a.width > b.width ? a : b)
RECURSIVE WidestIco(_)
WidestIco(widths) ==
    IF Len(widths) = 1 THEN widths[1]
    ELSE LET a == WidestIco(SubSeq(widths, 1, Len(widths) - 1))
             b == widths[Len(widths)]
         IN  IF a > b THEN a ELSE b

\* lines 142-154: the raster handed to resize; ok FALSE when a decoder throws
\* or (skip) the format is unsupported
DecodeBitmap(r) ==
    IF Includes(r.ctype, "png") \/ Includes(r.ctype, "jpeg") \/ Includes(r.ctype, "webp")
    THEN [ok |-> r.decodes, width |-> 0]
    ELSE IF Includes(r.ctype, "ico") \/ Includes(r.ctype, "x-icon")
    THEN IF Len(r.ico) = 0 \/ ~r.decodes
         THEN [ok |-> FALSE, width |-> 0]
         ELSE [ok |-> TRUE, width |-> WidestIco(r.ico)]
    ELSE [ok |-> FALSE, width |-> 0]

\* lines 117-123: the checks on the response before its body is read
\* (parseInt of an absent Content-Length header is parseInt('0'))
PassesHeaderChecks(r) ==
    LET contentLength == IF r.declared THEN r.len ELSE 0
    IN  /\ ~r.throws
        /\ r.ok
        /\ StartsWith(r.ctype, "image/")
        /\ ~(contentLength > 0 /\ contentLength < 100)

\* faulty variant of TryExternal: a bitmap no decoder takes is answered as it
\* was received
TryExternalPassThrough(r) ==
    IF ~(/\ ~r.throws
         /\ r.ok
         /\ StartsWith(r.ctype, "image/")
         /\ ~(r.declared /\ r.len > 0 /\ r.len < 100)) THEN Rejected
    ELSE IF Includes(r.ctype, "svg")
    THEN Accepted(Success(SvgMime, InjectDimensions(r.svg)))
    ELSE IF DecodeBitmap(r).ok
    THEN Accepted(Success(PngMime, << "png", "40x40" >>))
    ELSE IF Includes(r.ctype, "gif")
    THEN Accepted(Success(r.ctype, << "bytes" >>))
    ELSE Rejected

\* lines 116-165: an external candidate, given the response to its request
TryExternal(r) ==
    IF ~PassesHeaderChecks(r) THEN Rejected
    ELSE IF Includes(r.ctype, "svg")
    THEN Accepted(Success(SvgMime, InjectDimensions(r.svg)))
    ELSE IF DecodeBitmap(r).ok
    THEN Accepted(Success(PngMime, << "png", "40x40" >>))
    ELSE Rejected

\* line 101
IsDataSvg(href) == StartsWith2(href, "data:", "image/svg+xml")


(***************************************************************************)
(* The fetchIconList handler: src/unnamed/part_001 lines 63-170 calling    *)
(* src/unnamed/part_000.  One action per stretch of code between requests. *)
(***************************************************************************)
\* a request of the log; failed: the fetch threw instead of answering
Request(url, kind, failed) == [url |-> url, kind |-> kind, failed |-> failed]

HttpsOrigin(d) == << "https://" >> \o d

HttpOrigin(d) == << "http://" >> \o d

\* the targets the pipeline is explored for
PipelinePaths == { << "a" >> }

InitCommon ==
    /\ pc = "start"
    /\ domain = << >>
    /\ net = {}
    /\ allIcons = << >>
    /\ sortedIcons = << >>
    /\ idx = 0
    /\ candidates = << >>
    /\ manifestUrl = << >>
    /\ iconUrl = << >>
    /\ fetches = << >>
    /\ response = NoResponse
    /\ scored = NoScored
    /\ img = NoImage
    /\ lastPage = NoPage
    /\ lookups = << >>
    /\ lastManifest = NoManifest

Init ==
    /\ InitCommon
    /\ path \in PipelinePaths
    /\ site = LinkPool

InitInput ==
    /\ InitCommon
    /\ path \in Paths
    /\ site = {IconA}

\* lines 68-84; an exception of decodeURIComponent is caught nowhere
ParseRequest ==
    /\ pc = "start"
    /\ LET decoded == decodeURIComponent(path)
           parsed == ParseHostname(WithScheme(decoded.text))
       IN  IF ~decoded.ok
           THEN /\ response' = Uncaught
                /\ pc' = "done"
                /\ domain' = domain
           ELSE IF Len(decoded.text) = 0
           THEN /\ response' = Failure(400)
                /\ pc' = "done"
                /\ domain' = domain
           ELSE IF ~parsed.ok
           THEN /\ response' = Failure(400)
                /\ pc' = "done"
                /\ domain' = domain
           ELSE /\ response' = response
                /\ pc' = "https"
                /\ domain' = parsed.hostname
    /\ UNCHANGED << path, net, allIcons, sortedIcons, idx, candidates, manifestUrl,
                    iconUrl, fetches, scored, site, img, lastPage,
                    lookups, lastManifest >>

\* faulty variant of TryHttps: the HTTP page is requested whatever HTTPS found
TryHttpsThenHttp ==
    /\ pc = "https"
    /\ \E page \in PageResponses :
          /\ allIcons' = allIcons \o getFavicons(HttpsOrigin(domain), page)
          /\ fetches' = Append(fetches,
                               Request(HttpsOrigin(domain), "page", page.throws))
          /\ lastPage' = Received(page)
    /\ pc' = "http"
    /\ idx' = 1
    /\ UNCHANGED << path, domain, net, sortedIcons, candidates, manifestUrl, iconUrl,
                    response, scored, site, img, lookups, lastManifest >>

\* part_000 lines 70-77
TryHttps ==
    /\ pc = "https"
    /\ \E page \in PageResponses :
          /\ allIcons' = allIcons \o getFavicons(HttpsOrigin(domain), page)
          /\ pc' = IF Len(allIcons') = 0 THEN "http" ELSE "sources"
          /\ fetches' = Append(fetches,
                               Request(HttpsOrigin(domain), "page", page.throws))
          /\ lastPage' = Received(page)
    /\ idx' = 1
    /\ UNCHANGED << path, domain, net, sortedIcons, candidates, manifestUrl, iconUrl,
                    response, scored, site, img, lookups, lastManifest >>

\* part_000 lines 80-89
TryHttp ==
    /\ pc = "http"
    /\ \E page \in PageResponses :
          /\ allIcons' = allIcons \o getFavicons(HttpOrigin(domain), page)
          /\ fetches' = Append(fetches,
                               Request(HttpOrigin(domain), "page", page.throws))
          /\ lastPage' = Received(page)
    /\ pc' = "sources"
    /\ UNCHANGED << path, domain, net, sortedIcons, idx, candidates, manifestUrl,
                    iconUrl, response, scored, site, img, lookups, lastManifest >>

\* faulty variant of LookupOutcome: the lookup fetch is not wrapped in try/catch
LookupOutcomeNoCatch(r) ==
    IF r.throws THEN "throw"
    ELSE IF ~r.throws /\ r.ok /\ r.status = 200 /\ Len(r.ctype) > 0
            /\ StartsWith(r.ctype, "image/") THEN "push"
    ELSE "skip"

\* part_000 lines 98-108, what one turn of the loop does with the answer r:
\* "push" the lookup URL, "skip" it, or "throw" out of fetchIconList (never:
\* the catch of line 106 takes every exception of the fetch)
LookupOutcome(r) ==
    IF r.throws THEN "skip"
    ELSE IF SourceAccepted(r) THEN "push"
    ELSE "skip"

\* part_000 lines 97-109, one turn of the loop.  fetchIconList is awaited
\* outside any try (part_001 line 87): what it throws leaves the handler.
ProbeSource ==
    /\ pc = "sources"
    /\ LET source == Sources(domain)[idx]
       IN  \E r \in ProbeResponses :
              /\ fetches' = Append(fetches, Request(source, "lookup", r.throws))
              /\ lookups' = Append(lookups, r)
              /\ IF LookupOutcome(r) = "throw"
                 THEN /\ response' = Uncaught
                      /\ pc' = "done"
                      /\ UNCHANGED << allIcons, idx >>
                 ELSE /\ allIcons' =
                            IF LookupOutcome(r) = "push"
                            THEN Append(allIcons, [href |-> source,
                                                   sizes |-> Size("unknown", 0)])
                            ELSE allIcons
                      /\ idx' = idx + 1
                      /\ pc' = IF idx = Len(Sources(domain)) THEN "rank" ELSE "sources"
                      /\ response' = response
    /\ UNCHANGED << path, domain, net, sortedIcons, candidates, manifestUrl, iconUrl,
                    scored, site, img, lastPage, lastManifest >>

\* faulty variant of WithPlaceholder: the placeholder is always added
WithPlaceholderAlways(icons, d) == Append(icons, PlaceholderIcon(d))

\* faulty variant of WithPlaceholder: no placeholder is made
WithoutPlaceholder(icons, d) == icons

\* part_000 lines 112-127
WithPlaceholder(icons, d) ==
    IF Len(icons) = 0 THEN << PlaceholderIcon(d) >> ELSE icons

\* faulty variant of ScoreAndSort: the icons are scored but left in discovery order
ScoreUnsorted(icons) ==
    [k \in 1..Len(icons) |-> [icon |-> icons[k], score |-> calculateScore(icons[k])]]

\* part_001 lines 94-96
ScoreAndSort(icons) ==
    SortByScoreDesc([k \in 1..Len(icons) |->
                        [icon |-> icons[k], score |-> calculateScore(icons[k])]])

\* fetch(href) takes an absolute URL only; any other text makes it throw
IsAbsoluteUrl(href) ==
    /\ Len(href) > 0
    /\ href[1] \in {"http://", "https://"}
    /\ ParseHostname(href).ok

\* the hrefs of a list of icons that name an external resource
ExternalHrefs(icons) ==
    {icons[k].href : k \in {j \in 1..Len(icons) : ~IsDataSvg(icons[j].href)}}

\* part_000 lines 112-127 and part_001 lines 87-96.  The image hosts' state
\* during the resolution is an input: net is the set of hrefs whose request
\* will pass every check of the loop.
RankIcons ==
    /\ pc = "rank"
    /\ LET icons == WithPlaceholder(allIcons, domain)
       IN  /\ allIcons' = icons
           /\ IF Len(icons) = 0
              THEN /\ response' = Failure(404)
                   /\ pc' = "done"
                   /\ UNCHANGED << sortedIcons, net >>
              ELSE /\ sortedIcons' = ScoreAndSort(icons)
                   /\ net' \in SUBSET {h \in ExternalHrefs(icons) : IsAbsoluteUrl(h)}
                   /\ pc' = "resolve"
                   /\ response' = response
    /\ idx' = 1
    /\ lastPage' = NoPage
    /\ UNCHANGED << path, domain, candidates, manifestUrl, iconUrl, fetches, scored,
                    site, img, lookups, lastManifest >>

\* what the loop body makes of candidate href when its request answers r
LoopBody(href, r) == IF IsDataSvg(href) THEN TryDataUri(href) ELSE TryExternal(r)

\* part_001 lines 99-166, one turn of the loop
ResolveNext ==
    /\ pc = "resolve"
    /\ idx <= Len(sortedIcons)
    /\ LET href == sortedIcons[idx].icon.href
       IN  IF IsDataSvg(href)
           THEN /\ UNCHANGED << fetches, img >>
                /\ IF TryDataUri(href).accepted
                   THEN /\ response' = TryDataUri(href).response
                        /\ pc' = "done"
                        /\ idx' = idx
                   ELSE /\ idx' = idx + 1
                        /\ UNCHANGED << response, pc >>
           ELSE \E r \in ImageResponses :
                   /\ TryExternal(r).accepted <=> href \in net
                   /\ ~IsAbsoluteUrl(href) => r.throws
                   /\ fetches' = Append(fetches, Request(href, "image", r.throws))
                   /\ img' = r
                   /\ IF TryExternal(r).accepted
                      THEN /\ response' = TryExternal(r).response
                           /\ pc' = "done"
                           /\ idx' = idx
                      ELSE /\ idx' = idx + 1
                           /\ UNCHANGED << response, pc >>
    /\ UNCHANGED << path, domain, net, allIcons, sortedIcons, candidates, manifestUrl,
                    iconUrl, scored, site, lastPage, lookups, lastManifest >>

\* part_001 line 168
Exhausted ==
    /\ pc = "resolve"
    /\ idx > Len(sortedIcons)
    /\ response' = Failure(404)
    /\ pc' = "done"
    /\ UNCHANGED << path, domain, net, allIcons, sortedIcons, idx, candidates,
                    manifestUrl, iconUrl, fetches, scored, site, img, lastPage,
                    lookups, lastManifest >>

Next ==
    \/ ParseRequest
    \/ TryHttps
    \/ TryHttp
    \/ ProbeSource
    \/ RankIcons
    \/ ResolveNext
    \/ Exhausted

Spec == Init /\ [][Next]_vars

SpecInput == InitInput /\ [][Next]_vars

\* the pipeline for pages whose hrefs are of every form
InitHrefs ==
    /\ InitCommon
    /\ path \in PipelinePaths
    /\ site = HrefPool

SpecHrefs == InitHrefs /\ [][Next]_vars

\* the pipeline under fairness: every awaited call returns or throws, so the
\* handler's next step is always taken; the targets are a host name, an
\* empty path, a character no host holds and a malformed percent escape
LivePaths == { << "a" >>, << >>, << "^" >>, << "%" >> }

InitLive ==
    /\ InitCommon
    /\ path \in LivePaths
    /\ site = {IconA, TouchIco}

SpecLive == InitLive /\ [][Next]_vars /\ WF_vars(Next)

\* the pipeline for every target when the pages link no icon
InitDomains ==
    /\ InitCommon
    /\ path \in Paths
    /\ site = {}

SpecDomains == InitDomains /\ [][Next]_vars

(***************************************************************************)
(* SpecFallbackScore: calculateScore applied to a drawn icon.              *)
(***************************************************************************)
FallbackHrefs ==
    { << "/", "a", ".png" >>, << "/", "c", ".svg" >>, << "/", "favicon", ".ico" >>,
      << "icon", ".jpg" >>, << "/", "a", ".PNG" >>, << "/apple-touch-icon", ".png" >>,
      PlaceholderIcon(<< "a" >>).href,
      << "data:", "image/png", ";base64", ",", "QQ", ".png" >>,
      GoogleSource(<< "a" >>), DuckDuckGoSource(<< "a" >>) }

FallbackSizes ==
    DeclaredSizes \cup {Size("unknown", 0)} \cup {Size("W", w) : w \in Widths}

InitFallbackScore ==
    /\ InitCommon
    /\ path = << >>
    /\ site = {}

ScoreIcon ==
    /\ pc = "start"
    /\ \E href \in FallbackHrefs, sizes \in FallbackSizes :
          scored' = [applied |-> TRUE, icon |-> [href |-> href, sizes |-> sizes],
                     score |-> calculateScore([href |-> href, sizes |-> sizes])]
    /\ pc' = "scoredIcon"
    /\ UNCHANGED << path, domain, net, allIcons, sortedIcons, idx, candidates,
                    manifestUrl, iconUrl, fetches, response, site, img, lastPage,
                    lookups, lastManifest >>

NextFallbackScore == ScoreIcon

SpecFallbackScore == InitFallbackScore /\ [][NextFallbackScore]_vars


(***************************************************************************)
(* Claims about the fetchIconList handler.                                 *)
(***************************************************************************)
Done == pc = "done"

Served == Done /\ response.status = 200

\* the image requests issued so far, in order
RECURSIVE ImageRequests(_)
ImageRequests(log) ==
    IF Len(log) = 0 THEN << >>
    ELSE IF log[1].kind = "image" THEN << log[1].url >> \o ImageRequests(Tail(log))
    ELSE ImageRequests(Tail(log))

\* the external hrefs of the first n ranked candidates, in rank order
RECURSIVE ExternalPrefix(_, _)
ExternalPrefix(ranked, n) ==
    IF n = 0 THEN << >>
    ELSE ExternalPrefix(ranked, n - 1)
         \o (IF IsDataSvg(ranked[n].icon.href) THEN << >>
             ELSE << ranked[n].icon.href >>)

\* candidate k of the ranking passes every check of the loop
PassesEveryCheck(k) ==
    LET href == sortedIcons[k].icon.href
    IN  IF IsDataSvg(href) THEN atob(AfterComma(href)).ok ELSE href \in net

\* the candidates the loop has finished with
Visited ==
    IF pc = "resolve" THEN idx - 1
    ELSE IF Served THEN idx
    ELSE Len(sortedIcons)

\* C1: candidates are fetched one at a time in descending score order, the
\* response is built from the first candidate in that order that passes every
\* check, a failing candidate is skipped, and no candidate ranked below the
\* accepted one is ever fetched.
C1_FirstPassingInRankOrder ==
    (pc \in {"resolve", "done"} /\ Len(sortedIcons) > 0) =>
        /\ \A k \in 1..(Len(sortedIcons) - 1) :
              sortedIcons[k].score >= sortedIcons[k + 1].score
        /\ ImageRequests(fetches) = ExternalPrefix(sortedIcons, Visited)
        /\ \A k \in 1..Visited : (Served /\ k = idx) \/ ~PassesEveryCheck(k)
        /\ Served =>
              /\ PassesEveryCheck(idx)
              /\ response = LoopBody(sortedIcons[idx].icon.href, img).response
        /\ (Done /\ ~Served) => \A k \in 1..Len(sortedIcons) : ~PassesEveryCheck(k)

\* witness of C1: the third-ranked candidate was accepted after the two
\* better-ranked ones were fetched and rejected, one more being left unfetched
C1_Witness ==
    /\ Served
    /\ idx = 3
    /\ Len(sortedIcons) = 4
    /\ Len(ImageRequests(fetches)) = 3
    /\ sortedIcons[1].score > sortedIcons[3].score

ValidDomain == Len(domain) > 0

\* C3 as stated: for every request with a valid domain the handler never
\* returns a 404; the placeholder is served whenever every discovered
\* candidate is rejected.
C3_NeverNotFound == (Done /\ ValidDomain) => response.status # 404

\* the response is the synthesized monogram of the domain
IsPlaceholderResponse(resp) ==
    /\ resp.status = 200
    /\ resp.ctype = SvgMime
    /\ resp.body = ReplaceSvgTag(PlaceholderSvg(domain),
                                 << "<svg", "width=", "height=" >>)

AllFetchesFailed ==
    Len(fetches) > 0 /\ \A k \in 1..Len(fetches) : fetches[k].failed

\* C4: when every network fetch fails, the handler completes with the
\* placeholder image or a not-found response, and no exception leaves
\* fetchIconList or the handler.
C4_AllFetchesFailing ==
    /\ AllFetchesFailed => ~response.thrown
    /\ (Done /\ AllFetchesFailed) =>
          (IsPlaceholderResponse(response) \/ response.status = 404)

\* witness of C4: both page fetches and both lookups threw and the handler
\* answered with the placeholder
C4_Witness ==
    /\ Done
    /\ Len(fetches) = 4
    /\ AllFetchesFailed
    /\ IsPlaceholderResponse(response)

IsThirdParty(href) == \E k \in 1..Len(Sources(domain)) : href = Sources(domain)[k]

IsMarkupDerived(href) == ~IsThirdParty(href) /\ ~IsDataSvg(href)

\* C5 as stated: whenever at least one markup-derived candidate would pass
\* validation, the accepted icon is markup-derived, never a third-party URL.
C5_MarkupOutranksThirdParty ==
    (Done /\ \E k \in 1..Len(sortedIcons) :
                 IsMarkupDerived(sortedIcons[k].icon.href) /\ PassesEveryCheck(k))
        => (Served /\ IsMarkupDerived(sortedIcons[idx].icon.href))

\* the target is missing, cannot be percent-decoded or is no URL
InvalidTarget ==
    LET decoded == decodeURIComponent(path)
    IN  \/ ~decoded.ok
        \/ Len(decoded.text) = 0
        \/ ~ParseHostname(WithScheme(decoded.text)).ok

\* C6 as stated: for every request whose target is missing or cannot be
\* parsed the handler returns status 400 and performs no network fetch; it
\* never throws and never returns another status.
C6_InputErrorIs400 ==
    (Done /\ InvalidTarget) =>
        (response.status = 400 /\ ~response.thrown /\ Len(fetches) = 0)

\* position of an href in the ranking, 0 when absent
RankOf(href) ==
    IF \E k \in 1..Len(sortedIcons) : sortedIcons[k].icon.href = href
    THEN CHOOSE k \in 1..Len(sortedIcons) : sortedIcons[k].icon.href = href
    ELSE 0

IsRaster(el) == ~EndsWith(el.href, ".svg") /\ el.type # SvgMime

\* C9 as stated, for the ranking of calculateScore: of two non-vector markup
\* candidates, an apple-touch-icon and an icon, the apple-touch-icon whose
\* declared width is at least the other's is ranked first.
C9_TouchIconRankedFirst ==
    pc \in {"resolve", "done"} =>
        \A t \in LinkPool, g \in LinkPool :
            LET th == ResolveHref(t.href, HttpsOrigin(domain))
                gh == ResolveHref(g.href, HttpsOrigin(domain))
            IN  (/\ t.rel = << "apple-touch-icon" >>
                 /\ g.rel = << "icon" >>
                 /\ IsRaster(t) /\ IsRaster(g)
                 /\ DeclaredWidth(t.sizes) >= DeclaredWidth(g.sizes)
                 /\ RankOf(th) > 0 /\ RankOf(gh) > 0)
                    => RankOf(th) < RankOf(gh)

\* the href of the candidate the response was built from
WinnerHref == sortedIcons[idx].icon.href

\* the last image response passed the header checks and reached the ICO
\* branch of the loop (part_001 line 148)
ReachedIcoBranch ==
    /\ pc \in {"resolve", "done"}
    /\ img.fetched
    /\ ~img.throws /\ img.ok /\ StartsWith(img.ctype, "image/")
    /\ ~(img.declared /\ img.len > 0 /\ img.len < 100)
    /\ img.ctype = IcoMime

\* C11: for an ICO payload that decodes to a non-empty list of embedded
\* images, the image handed to resize is at least as wide as every embedded
\* image, and the candidate is served as a PNG; an ICO payload that decodes
\* to an empty list makes the candidate a rejected one: nothing is thrown
\* and the loop goes on to the next candidate (a 404 only on exhaustion).
C11_WidestIcoResized ==
    (ReachedIcoBranch /\ img.decodes) =>
        IF Len(img.ico) > 0
        THEN /\ Served
             /\ response.ctype = PngMime
             /\ WinnerHref = fetches[Len(fetches)].url
             /\ DecodeBitmap(img).ok
             /\ \E k \in 1..Len(img.ico) : DecodeBitmap(img).width = img.ico[k]
             /\ \A k \in 1..Len(img.ico) : DecodeBitmap(img).width >= img.ico[k]
        ELSE /\ ~response.thrown
             /\ ~Served
             /\ pc = "resolve" => sortedIcons[idx - 1].icon.href = fetches[Len(fetches)].url
             /\ Done => (response.status = 404 /\ idx > Len(sortedIcons))

\* witness of C11: an ICO whose widest image (48) is the first of three was
\* accepted
C11_Witness ==
    /\ Served
    /\ ReachedIcoBranch
    /\ img.ico = << 48, 16, 32 >>
    /\ DecodeBitmap(img).width = 48
    /\ response.ctype = PngMime

\* C12: every success response of the handler has Content-Type image/svg+xml
\* (the data-URI or a response of an svg type passed through) or image/png,
\* and every image/png body is the PNG encoding of a raster that was decoded
\* and resized to the fixed box; nothing else is answered with status 200.
C12_SuccessIsSvgOrResizedPng ==
    Served =>
        \/ /\ response.ctype = SvgMime
           /\ IsDataSvg(WinnerHref) \/ (img.fetched /\ Includes(img.ctype, "svg"))
        \/ /\ response.ctype = PngMime
           /\ response.body = << "png", "40x40" >>
           /\ ~IsDataSvg(WinnerHref)
           /\ img.fetched /\ ~Includes(img.ctype, "svg")
           /\ DecodeBitmap(img).ok

\* witness of C12: a JPEG was decoded, resized and answered as a PNG
C12_Witness ==
    /\ Served
    /\ img.fetched
    /\ img.ctype = << "image/", "jpeg" >>
    /\ response.ctype = PngMime
    /\ response.body = << "png", "40x40" >>

\* C13 as stated: a candidate is accepted only if its response succeeded, its
\* Content-Type starts with image/ and its payload length, when declared, is
\* at least 100; a declared length of 0 or below 100 is rejected.
C13_DeclaredLengthAtLeast100 ==
    (Served /\ ~IsDataSvg(WinnerHref)) =>
        /\ img.fetched /\ ~img.throws /\ img.ok
        /\ StartsWith(img.ctype, "image/")
        /\ img.declared => img.len >= 100

HasPlaceholder(icons) == \E k \in 1..Len(icons) : icons[k] = PlaceholderIcon(domain)

\* C15: in the list fetchIconList returns, the placeholder is present only
\* when nothing else is: a list holding the placeholder holds no other
\* candidate, and a list holding a markup-derived or third-party candidate
\* holds no placeholder.
C15_PlaceholderOnlyWhenAlone ==
    (pc \in {"resolve", "done"} /\ Len(allIcons) > 0) =>
        /\ HasPlaceholder(allIcons) => allIcons = << PlaceholderIcon(domain) >>
        /\ (\E k \in 1..Len(allIcons) :
               IsMarkupDerived(allIcons[k].href) \/ IsThirdParty(allIcons[k].href))
              => ~HasPlaceholder(allIcons)
        /\ Len(sortedIcons) = Len(allIcons)

\* witness of C15: both pages gave no icon, both lookups were turned down and
\* the list is the placeholder alone
C15_Witness ==
    /\ pc = "resolve"
    /\ Len(lookups) = 2
    /\ allIcons = << PlaceholderIcon(domain) >>

\* the format term of the rule set, the extension taken whatever its case
RuleFormatTerm(href) ==
    LET lower == ToLowerCase(href)
        last == lower[Len(lower)]
    IN  IF lower[1] = "data:" THEN 0 - 1000
        ELSE CASE last = ".svg" -> 1000
               [] last = ".png" -> 500
               [] last = ".ico" -> 200
               [] OTHER -> 100

\* the width a sizes value declares: the W of WxH, a bare number read as a
\* width of its own, and 0 for an absent, "unknown" or non-numeric value
RuleSizeTerm(sizes) == IF sizes.form \in {"WxH", "W"} THEN sizes.w ELSE 0

HasToken(href, t) == \E k \in 1..Len(href) : href[k] = t

RuleReputationTerm(href) ==
    (IF HasToken(href, "apple-touch-icon") \/ HasToken(href, "/apple-touch-icon")
     THEN 50 ELSE 0)
    + (IF HasToken(href, "google.com/s2/favicons") THEN 30 ELSE 0)
    + (IF HasToken(href, "icons.duckduckgo.com") THEN 0 - 20 ELSE 0)

C23_ListNeverEmpty ==
    /\ (pc \in {"resolve", "done"} /\ ValidDomain) =>
          /\ Len(allIcons) > 0
          /\ Len(sortedIcons) = Len(allIcons)
          /\ ~response.thrown
    /\ (Done /\ ValidDomain /\ response.status = 404) => idx = Len(sortedIcons) + 1

\* witness of C23: for a domain given as an IPv4 number both pages held no
\* icon link, both lookups answered no image, and the list is the placeholder
C23_Witness ==
    /\ pc = "resolve"
    /\ domain = << "0", ".", "0", ".", "0", ".", "44" >>
    /\ Len(fetches) = 4
    /\ \A k \in 1..Len(fetches) : ~fetches[k].failed
    /\ allIcons = << PlaceholderIcon(domain) >>

\* C18 as stated, for the list fetchIconList builds: every descriptor holds
\* an absolute, parseable URL or a data: URI, whatever the form of the href
\* found in the markup.
C18_EveryHrefAbsolute ==
    \A k \in 1..Len(allIcons) :
        IsAbsoluteUrl(allIcons[k].href) \/ StartsWith(allIcons[k].href, "data:")

\* C19 as stated: when the page fetch throws, answers a non-success status or
\* a non-HTML response, no candidate is extracted from that response.
C19_FailedDiscoveryYieldsNothing ==
    (/\ pc \in {"http", "sources"}
     /\ lastPage.fetched
     /\ Len(lookups) = 0
     /\ (lastPage.throws \/ ~lastPage.ok \/ ~lastPage.html))
        => Len(allIcons) = 0

\* a lookup answer with a success status and an image Content-Type
ObservedImage(r) == ~r.throws /\ r.ok /\ StartsWith(r.ctype, "image/")

InIcons(icons, href) == \E k \in 1..Len(icons) : icons[k].href = href

InRanking(href) == \E k \in 1..Len(sortedIcons) : sortedIcons[k].icon.href = href

\* C20: a third-party lookup URL is a candidate, is ranked or is the URL the
\* response was built from only after that service answered with a success
\* status and an image Content-Type; a service that was unreachable or
\* answered another type contributes nothing.
C20_ThirdPartyOnlyAfterImageAnswer ==
    \A k \in 1..Len(Sources(domain)) :
        LET source == Sources(domain)[k]
        IN  (\/ InIcons(allIcons, source)
             \/ InRanking(source)
             \/ (Served /\ Len(sortedIcons) > 0 /\ WinnerHref = source))
                => (k <= Len(lookups) /\ ObservedImage(lookups[k]))

\* witness of C20: DuckDuckGo was unreachable, Google answered an image and
\* its URL is the one the response was built from
C20_Witness ==
    /\ Served
    /\ Len(lookups) = 2
    /\ lookups[1].throws
    /\ ObservedImage(lookups[2])
    /\ WinnerHref = GoogleSource(domain)


(***************************************************************************)
(* The findBestIcon handler, src/src/index.ts lines 83-267.                *)
(***************************************************************************)
OgImage == Element("meta", << "og:image" >>, << "/", "og", ".png" >>, NoSize, << >>)

ManifestLink ==
    Element("link", << "manifest" >>, << "/", "manifest", ".json" >>, NoSize, << >>)

\* a second manifest link, and references that new URL(href, base) rejects
ManifestLink2 ==
    Element("link", << "manifest" >>, << "/", "site", ".webmanifest" >>, NoSize, << >>)

BadManifest == Element("link", << "manifest" >>, << "http://", "^" >>, NoSize, << >>)

BadIcon == Element("link", << "icon" >>, << "http://", "^" >>, NoSize, << >>)

BestPool == {IconA, TouchB, OgImage, ManifestLink, ManifestLink2, BadManifest, BadIcon}

\* new URL(ref, base) for a base of the form scheme://host;
\* [ok |-> FALSE] stands for the TypeError it throws
ResolveUrl(ref, base) ==
    IF StartsWith(ref, "http://") \/ StartsWith(ref, "https://")
    THEN [ok |-> ParseHostname(ref).ok, url |-> ref]
    ELSE IF StartsWith(ref, "data:") THEN [ok |-> TRUE, url |-> ref]
    ELSE IF ref[1] = "//"
    THEN [ok |-> ParseHostname(<< base[1] >> \o Tail(ref)).ok,
          url |-> << base[1] >> \o Tail(ref)]
    ELSE IF StartsWith(ref, "/") THEN [ok |-> TRUE, url |-> base \o ref]
    ELSE [ok |-> TRUE, url |-> base \o << "/" >> \o ref]

Candidate(url, rel, sizes, type, score) ==
    [url |-> url, rel |-> rel, sizes |-> sizes, type |-> type, score |-> score]

\* IconCollector.element, lines 89-130, applied to the elements of a document
\* in order.  scan: [candidates, manifestUrl, aborted]; the exception of
\* line 105 is caught by nothing in element and ends the transform.
CollectElement(scan, el, base) ==
    IF scan.aborted THEN scan
    ELSE IF el.tag = "link" /\ IsIconRel(el.rel)
    THEN IF Len(el.href) > 0 /\ ResolveUrl(el.href, base).ok
         THEN [scan EXCEPT !.candidates =
                  Append(@, Candidate(ResolveUrl(el.href, base).url, el.rel, el.sizes,
                                      el.type,
                                      scoreCandidate([href |-> el.href, rel |-> el.rel,
                                                      sizes |-> el.sizes,
                                                      type |-> el.type])))]
         ELSE scan
    ELSE IF el.tag = "link" /\ el.rel = << "manifest" >>
    THEN IF Len(el.href) = 0 THEN scan
         ELSE IF ResolveUrl(el.href, base).ok
         THEN [scan EXCEPT !.manifestUrl = ResolveUrl(el.href, base).url]
         ELSE [scan EXCEPT !.aborted = TRUE]
    ELSE IF el.tag = "meta" /\ el.rel = << "og:image" >>
    THEN IF Len(el.href) > 0 /\ ResolveUrl(el.href, base).ok
         THEN [scan EXCEPT !.candidates =
                  Append(@, Candidate(ResolveUrl(el.href, base).url, << "og:image" >>,
                                      NoSize, << >>,
                                      scoreCandidate([href |-> el.href,
                                                      rel |-> << "og:image" >>,
                                                      sizes |-> NoSize,
                                                      type |-> << >>])))]
         ELSE scan
    ELSE scan

RECURSIVE CollectAll(_, _, _)
CollectAll(scan, doc, base) ==
    IF Len(doc) = 0 THEN scan
    ELSE CollectAll(CollectElement(scan, doc[1], base), Tail(doc), base)

\* lines 134-145
ScanPage(page, base) ==
    LET start == [candidates |-> << >>, manifestUrl |-> << >>, aborted |-> FALSE]
    IN  IF ~page.throws /\ page.ok /\ page.html
        THEN CollectAll(start, page.doc, base)
        ELSE start

\* what a manifest request may answer: icons is the icons array of the JSON
ManifestEntry(src, sizes, type) == [src |-> src, sizes |-> sizes, type |-> type]

ManifestResponses ==
    {[throws |-> TRUE, ok |-> FALSE, json |-> FALSE, icons |-> << >>],
     [throws |-> FALSE, ok |-> FALSE, json |-> TRUE, icons |-> << >>],
     [throws |-> FALSE, ok |-> FALSE, json |-> TRUE,
      icons |-> << ManifestEntry(<< "/", "m", ".png" >>, Size("WxH", 180), PngMime) >>],
     [throws |-> FALSE, ok |-> TRUE, json |-> FALSE, icons |-> << >>],
     [throws |-> FALSE, ok |-> TRUE, json |-> TRUE, icons |-> << >>],
     [throws |-> FALSE, ok |-> TRUE, json |-> TRUE,
      icons |-> << ManifestEntry(<< "/", "c", ".svg" >>, NoSize, << >>) >>],
     [throws |-> FALSE, ok |-> TRUE, json |-> TRUE,
      icons |-> << ManifestEntry(<< >>, NoSize, << >>),
                   ManifestEntry(<< "/", "m", ".png" >>, Size("WxH", 180), PngMime) >>]}

\* lines 154-166
RECURSIVE ManifestCandidates(_, _)
ManifestCandidates(icons, base) ==
    IF Len(icons) = 0 THEN << >>
    ELSE LET icon == icons[1]
             rest == ManifestCandidates(Tail(icons), base)
         IN  IF Len(icon.src) = 0 THEN rest
             ELSE IF ~ResolveUrl(icon.src, base).ok THEN << >>
             ELSE << Candidate(ResolveUrl(icon.src, base).url, << "manifest-icon" >>,
                               icon.sizes, icon.type,
                               scoreCandidate([href |-> icon.src,
                                               rel |-> << "manifest-icon" >>,
                                               sizes |-> icon.sizes,
                                               type |-> icon.type])) >> \o rest

\* faulty variant of ReadManifest: the status of the response is not looked at
ReadManifestAnyStatus(m, base) ==
    IF ~m.throws /\ m.json THEN ManifestCandidates(m.icons, base) ELSE << >>

\* lines 149-171
ReadManifest(m, base) ==
    IF ~m.throws /\ m.ok /\ m.json THEN ManifestCandidates(m.icons, base) ELSE << >>

\* the origin of a URL of the form scheme://host/...: its first two parts
OriginOf(url) == SubSeq(url, 1, 2)

FaviconUrl(d) == HttpsOrigin(d) \o << "/", "favicon", ".ico" >>

\* line 193
GoogleFallback(d) ==
    << "https://", "www.", "google.com/s2/favicons", "?domain=" >> \o d
        \o << "&sz=128" >>

\* the body of a response as the handler passes it through
RawBody(r) == IF Len(r.svg) > 0 THEN r.svg ELSE << "bytes" >>

\* lines 223-261: what the handler answers from the response r to the
\* request of the icon; thrown: an exception for the catch of line 262
NormalizeIcon(r) ==
    LET contentType == IF Len(r.ctype) = 0 THEN PngMime ELSE r.ctype
    IN  IF Includes(contentType, "png") \/ Includes(contentType, "jpeg")
           \/ Includes(contentType, "webp")
        THEN IF r.decodes
             THEN Accepted(Success(PngMime, << "png", "32x32" >>))
             ELSE Rejected
        ELSE IF Includes(contentType, "ico") \/ Includes(contentType, "x-icon")
                \/ Includes(contentType, "vnd.microsoft.icon")
        THEN IF Len(r.ico) > 0 /\ r.decodes
             THEN Accepted(Success(PngMime, << "png", "32x32" >>))
             ELSE Rejected
        ELSE Accepted(Success(contentType, RawBody(r)))

\* lines 211-265
AnswerFrom(r) ==
    IF r.throws \/ ~r.ok THEN Failure(404)
    ELSE IF NormalizeIcon(r).accepted THEN NormalizeIcon(r).response
    ELSE Failure(404)

BestTargets == { << >>, << "a" >>, << "^" >> }

InitBest ==
    /\ InitCommon
    /\ path \in BestTargets
    /\ site = BestPool

\* lines 198-209; new URL(targetParam) is outside the try
ParseTarget ==
    /\ pc = "start"
    /\ LET parsed == ParseHostname(WithScheme(path))
       IN  IF Len(path) = 0
           THEN /\ response' = Failure(400)
                /\ pc' = "done"
                /\ domain' = domain
           ELSE IF ~parsed.ok
           THEN /\ response' = Uncaught
                /\ pc' = "done"
                /\ domain' = domain
           ELSE /\ response' = response
                /\ pc' = "page"
                /\ domain' = parsed.hostname
    /\ UNCHANGED << path, net, allIcons, sortedIcons, idx, candidates, manifestUrl,
                    iconUrl, fetches, scored, site, img, lastPage,
                    lookups, lastManifest >>

\* lines 134-145
FetchPage ==
    /\ pc = "page"
    /\ \E page \in PageResponses :
          /\ candidates' = ScanPage(page, HttpsOrigin(domain)).candidates
          /\ manifestUrl' = ScanPage(page, HttpsOrigin(domain)).manifestUrl
          /\ fetches' = Append(fetches, Request(HttpsOrigin(domain), "page", page.throws))
          /\ pc' = IF Len(manifestUrl') > 0 THEN "manifest" ELSE "select"
          /\ lastPage' = Received(page)
    /\ UNCHANGED << path, domain, net, allIcons, sortedIcons, idx, iconUrl, response,
                    scored, site, img, lookups, lastManifest >>

\* lines 148-172
FetchManifest ==
    /\ pc = "manifest"
    /\ \E m \in ManifestResponses :
          /\ candidates' = candidates \o ReadManifest(m, OriginOf(manifestUrl))
          /\ fetches' = Append(fetches, Request(manifestUrl, "manifest", m.throws))
          /\ lastManifest' = [fetched |-> TRUE, throws |-> m.throws, ok |-> m.ok,
                              json |-> m.json, icons |-> m.icons]
    /\ pc' = "select"
    /\ UNCHANGED << path, domain, net, allIcons, sortedIcons, idx, manifestUrl, iconUrl,
                    response, scored, site, img, lastPage, lookups >>

\* lines 175-179
SelectBest ==
    /\ pc = "select"
    /\ IF Len(candidates) > 0
       THEN /\ candidates' = SortByScoreDesc(candidates)
            /\ iconUrl' = candidates'[1].url
            /\ pc' = "icon"
       ELSE /\ pc' = "favicon"
            /\ UNCHANGED << candidates, iconUrl >>
    /\ lastPage' = NoPage
    /\ UNCHANGED << path, domain, net, allIcons, sortedIcons, idx, manifestUrl, fetches,
                    response, scored, site, img, lookups, lastManifest >>

\* lines 182-193
HeadFavicon ==
    /\ pc = "favicon"
    /\ \E r \in {[throws |-> TRUE, ok |-> FALSE], [throws |-> FALSE, ok |-> FALSE],
                 [throws |-> FALSE, ok |-> TRUE]} :
          /\ iconUrl' = IF ~r.throws /\ r.ok THEN FaviconUrl(domain)
                        ELSE GoogleFallback(domain)
          /\ fetches' = Append(fetches, Request(FaviconUrl(domain), "head", r.throws))
    /\ pc' = "icon"
    /\ UNCHANGED << path, domain, net, allIcons, sortedIcons, idx, candidates,
                    manifestUrl, response, scored, site, img, lastPage,
                    lookups, lastManifest >>

\* lines 214-265
FetchIcon ==
    /\ pc = "icon"
    /\ \E r \in ImageResponses :
          /\ img' = r
          /\ fetches' = Append(fetches, Request(iconUrl, "image", r.throws))
          /\ response' = AnswerFrom(r)
    /\ pc' = "done"
    /\ UNCHANGED << path, domain, net, allIcons, sortedIcons, idx, candidates,
                    manifestUrl, iconUrl, scored, site, lastPage,
                    lookups, lastManifest >>

NextBest ==
    \/ ParseTarget
    \/ FetchPage
    \/ FetchManifest
    \/ SelectBest
    \/ HeadFavicon
    \/ FetchIcon

SpecBest == InitBest /\ [][NextBest]_vars


(***************************************************************************)
(* Claims about the findBestIcon handler.                                  *)
(***************************************************************************)
RequestedUrls == {fetches[k].url : k \in 1..Len(fetches)}

\* the discovered candidates and fallback sources no request was made to
Untried ==
    ({candidates[k].url : k \in 1..Len(candidates)}
        \cup {FaviconUrl(domain), GoogleFallback(domain)}) \ RequestedUrls

\* C2 as stated: when the fetch of the top-ranked candidate fails or returns a
\* non-success status while other discovered candidates or fallback sources
\* remain untried, the handler advances to one of them instead of ending the
\* request with an error response.
C2_RejectedNeverAborts ==
    (/\ Done
     /\ Len(candidates) > 0
     /\ img.fetched
     /\ iconUrl = candidates[1].url
     /\ (img.throws \/ ~img.ok)
     /\ Untried # {})
        => (response.status = 200 /\ ~response.thrown)

\* the root svg element of a markup: the tokens up to the first ">"
RECURSIVE RootElement(_)
RootElement(text) ==
    IF Len(text) = 0 \/ text[1] = ">" THEN << >>
    ELSE << text[1] >> \o RootElement(Tail(text))

HasExplicitDimensions(text) ==
    /\ \E k \in 1..Len(RootElement(text)) : RootElement(text)[k] = "width="
    /\ \E k \in 1..Len(RootElement(text)) : RootElement(text)[k] = "height="

ManifestSvgUrl == HttpsOrigin(domain) \o << "/", "c", ".svg" >>

\* C10 as stated: when the page yields no markup icon candidate but links a
\* manifest whose icons array holds one entry with src "/c.svg", that candidate
\* is selected, the response Content-Type is image/svg+xml and the returned
\* markup has explicit width and height attributes on the root svg element
\* (the request of /c.svg answering with SVG content).
C10_ManifestSvgPassThrough ==
    (/\ Done
     /\ Len(candidates) = 1
     /\ candidates[1].rel = << "manifest-icon" >>
     /\ candidates[1].url = ManifestSvgUrl
     /\ img.fetched /\ ~img.throws /\ img.ok /\ img.ctype = SvgMime)
        => /\ iconUrl = ManifestSvgUrl
           /\ response.status = 200
           /\ response.ctype = SvgMime
           /\ HasExplicitDimensions(response.body) 
\* the page was scanned by IconCollector and findBestIcon has not returned
PageScanned ==
    /\ pc \in {"manifest", "select"}
    /\ lastPage.fetched
    /\ ~lastPage.throws /\ lastPage.ok /\ lastPage.html

\* positions of the link elements with rel exactly "manifest" and an href
ManifestLinks(doc) ==
    {k \in 1..Len(doc) : /\ doc[k].tag = "link"
                         /\ doc[k].rel = << "manifest" >>
                         /\ Len(doc[k].href) > 0}

Resolves(el) == ResolveUrl(el.href, HttpsOrigin(domain)).ok

Resolved(el) == ResolveUrl(el.href, HttpsOrigin(domain)).url

\* C16 as stated: the manifest URL retained by the scan, and fetched
\* afterwards, is the one of the first link element with rel "manifest" in
\* document order (every manifest href of the page being a valid URL).
C16_FirstManifestWins ==
    (/\ PageScanned
     /\ ManifestLinks(lastPage.doc) # {}
     /\ \A k \in ManifestLinks(lastPage.doc) : Resolves(lastPage.doc[k]))
        => LET first == CHOOSE k \in ManifestLinks(lastPage.doc) :
                            \A j \in ManifestLinks(lastPage.doc) : k <= j
           IN  /\ manifestUrl = Resolved(lastPage.doc[first])
               /\ pc = "select" =>
                      \E n \in 1..Len(fetches) :
                          /\ fetches[n].kind = "manifest"
                          /\ fetches[n].url = Resolved(lastPage.doc[first])

\* an element that holds a reference the scan reads
IsIconReference(el) ==
    /\ Len(el.href) > 0
    /\ \/ el.tag = "link" /\ IsIconRel(el.rel)
       \/ el.tag = "meta" /\ el.rel = << "og:image" >>

IsReference(el) ==
    \/ IsIconReference(el)
    \/ el.tag = "link" /\ el.rel = << "manifest" >> /\ Len(el.href) > 0

\* C17 as stated: a reference of the markup (icon href, og:image content or
\* manifest href) that resolves to no valid URL is dropped and the scan goes
\* on: every valid icon reference later in the document is a candidate.
C17_BadReferenceDropped ==
    PageScanned =>
        \A j \in 1..Len(lastPage.doc), k \in 1..Len(lastPage.doc) :
            (/\ j < k
             /\ IsReference(lastPage.doc[j]) /\ ~Resolves(lastPage.doc[j])
             /\ IsIconReference(lastPage.doc[k]) /\ Resolves(lastPage.doc[k]))
                => \E n \in 1..Len(candidates) :
                       candidates[n].url = Resolved(lastPage.doc[k])

\* the manifest request failed: it threw, answered a non-success status, or
\* its body is no valid JSON
ManifestFailed ==
    /\ lastManifest.fetched
    /\ lastManifest.throws \/ ~lastManifest.ok \/ ~lastManifest.json

\* C21: when the manifest fetch throws, answers a non-success status or a
\* body that is no valid JSON, findBestIcon adds no manifest candidate, keeps
\* the markup candidates as they were collected, and goes on to the ranking
\* without raising.
C21_ManifestFailureSilent ==
    ManifestFailed =>
        /\ pc \in {"select", "icon", "favicon", "done"}
        /\ ~response.thrown
        /\ \A n \in 1..Len(candidates) : candidates[n].rel # << "manifest-icon" >>
        /\ pc = "select" =>
              /\ response = NoResponse
              /\ candidates = ScanPage(lastPage, HttpsOrigin(domain)).candidates

\* witness of C21: the manifest request answered a non-success status with a
\* JSON body that lists an icon; the markup candidate is the only one
C21_Witness ==
    /\ pc = "select"
    /\ ManifestFailed
    /\ ~lastManifest.throws /\ lastManifest.json /\ Len(lastManifest.icons) > 0
    /\ Len(candidates) = 1


(***************************************************************************)
(* Claims about the markup the handlers answer with.                       *)
(***************************************************************************)
\* how many times an attribute occurs in a run of tokens
RECURSIVE CountToken(_, _)
CountToken(text, t) ==
    IF Len(text) = 0 THEN 0
    ELSE (IF text[1] = t THEN 1 ELSE 0) + CountToken(Tail(text), t)

\* C14 as stated: on the svg pass-through paths of the fetchIconList handler
\* (fetched svg and data-URI svg) the root svg element of the returned markup
\* carries exactly one width and exactly one height attribute.
C14_ExactlyOneWidthAndHeight ==
    (Served /\ response.ctype = SvgMime) =>
        /\ CountToken(RootElement(response.body), "width=") = 1
        /\ CountToken(RootElement(response.body), "height=") = 1

\* the plain-HTTP page request of the domain
IsHttpPageRequest(q) == q.kind = "page" /\ q.url = HttpOrigin(domain)

IsHttpsPageRequest(q) == q.kind = "page" /\ q.url = HttpsOrigin(domain)

HttpRequested == \E k \in 1..Len(fetches) : IsHttpPageRequest(fetches[k])

\* the lookups answered so far whose URL joined the list
Pushed == {k \in 1..Len(lookups) : LookupOutcome(lookups[k]) = "push"}

\* an icon of the list that the HTTPS page linked
FoundOnHttps(icon) ==
    /\ ~IsThirdParty(icon.href)
    /\ Len(icon.href) > Len(domain)
    /\ SubSeq(icon.href, 1, Len(domain) + 1) = HttpsOrigin(domain)

\* C24: the plain-HTTP page is requested only when the HTTPS page gave no
\* icon: the HTTP request is the second of the log, right after the HTTPS
\* one, the list is empty when it is about to be issued, and once it was
\* issued the list holds the HTTP page's icons and the accepted lookups
\* only; a list that holds an icon of the HTTPS page goes with a log that
\* has no HTTP request; every page request precedes every lookup.
C24_HttpOnlyAfterEmptyHttps ==
    /\ \A k \in 1..Len(fetches) :
          IsHttpPageRequest(fetches[k]) =>
              k = 2 /\ IsHttpsPageRequest(fetches[1])
    /\ pc = "http" =>
          /\ Len(allIcons) = 0
          /\ Len(fetches) = 1
          /\ Len(getFavicons(HttpsOrigin(domain), lastPage)) = 0
    /\ (pc \in {"sources", "rank"} /\ HttpRequested) =>
          Len(allIcons) = Len(getFavicons(HttpOrigin(domain), lastPage))
                              + Cardinality(Pushed)
    /\ (\E k \in 1..Len(allIcons) : FoundOnHttps(allIcons[k])) => ~HttpRequested
    /\ \A j, k \in 1..Len(fetches) :
          (fetches[j].kind = "page" /\ fetches[k].kind = "lookup") => j < k
    /\ \A k \in 1..Len(fetches) :
          fetches[k].kind = "lookup" => IsHttpsPageRequest(fetches[1])

C24_Witness ==
    /\ pc = "rank"
    /\ Len(fetches) = 4
    /\ IsHttpsPageRequest(fetches[1]) /\ ~fetches[1].failed
    /\ IsHttpPageRequest(fetches[2])
    /\ fetches[3].kind = "lookup" /\ fetches[4].kind = "lookup"
    /\ Len(allIcons) = 3
    /\ allIcons[1].href[1] = "http://"
    /\ IsThirdParty(allIcons[3].href)

\* the HTTPS page linked an icon and the lookups followed at once
C24_SkipWitness ==
    /\ pc = "rank"
    /\ Len(fetches) = 3
    /\ \E k \in 1..Len(allIcons) : FoundOnHttps(allIcons[k])

\* the requests of one kind issued so far
RequestsOfKind(kind) == {k \in 1..Len(fetches) : fetches[k].kind = kind}

\* the handler's fetches stay within two pages, two lookups and one image
\* request per list entry passed by the loop, entry by entry in list order
WithinFetchBounds ==
    /\ Cardinality(RequestsOfKind("page")) <= 2
    /\ Cardinality(RequestsOfKind("lookup")) <= 2
    /\ Cardinality(RequestsOfKind("image")) <= Len(sortedIcons)
    /\ ImageRequests(fetches) =
          IF pc \in {"resolve", "done"} THEN ExternalPrefix(sortedIcons, Visited)
          ELSE << >>

\* a response is returned, and none before the handler ends
OneResponse ==
    /\ pc # "done" => response = NoResponse
    /\ Done => (response # NoResponse /\ ~response.thrown)

\* C25 as stated: every request eventually produces exactly one response,
\* after at most two page fetches, two lookups and one fetch per candidate
\* of the list, no candidate being fetched twice in the loop.
C25_OneResponseWithinBounds ==
    /\ <>Done
    /\ [](OneResponse /\ WithinFetchBounds)

\* what holds of every request: the handler ends, by a response or by the
\* exception that leaves it, within the fetch bounds
C25_EndsWithinBounds ==
    /\ <>Done
    /\ [](pc # "done" => response = NoResponse)
    /\ [](Done => response # NoResponse)
    /\ [](WithinFetchBounds)

\* a request that ends after two page fetches, two lookups and three images
C25_FullRun ==
    /\ Done
    /\ Cardinality(RequestsOfKind("page")) = 2
    /\ Cardinality(RequestsOfKind("lookup")) = 2
    /\ Cardinality(RequestsOfKind("image")) = 3


====
